---------------------------- MODULE Spec2Model ----------------------------
(***************************************************************************)
(* birdy (src/src/main.rs): a screenshot tool.  One Screenshot value holds *)
(* the captured frame, the selection Region (p0, p1), the resize flags,    *)
(* the draw mode, the item being drawn and the drawn items.  The winit     *)
(* event loop delivers cursor, mouse-button, keyboard, close and resize    *)
(* events, then MainEventsCleared, then RedrawRequested.                   *)
(*                                                                         *)
(* Points are <<x, y>> (Rust tuples (usize, usize); .0 is [1], .1 is [2]). *)
(* A PhysicalPosition<f64> is modelled as <<hx, hy>> in HALF pixels, so    *)
(* that the cast `as usize` (truncate, saturate at 0) is not the identity. *)
(* Buffers are sequences of bytes, 1-based: Rust index i is buf[i + 1].    *)
(***************************************************************************)
EXTENDS Integers, Sequences, FiniteSets, TLC

\* ------------------------------------------------------------ bounds

\* Size of the captured screen and of the initial (fullscreen) window.
ScreenW == 12
ScreenH == 12
\* The environment delivers at most MaxEvents input events in a session.
MaxEvents == 5
\* The environment delivers at most MaxBatch input events between two
\* MainEventsCleared events.
MaxBatch == 2
\* A session in progress (InitSession) is followed for SessionBudget more
\* input events.
SessionBudget == 4

\* ------------------------------------------------- program constants

\* The edge band's tolerance in on_mouse_pressed (saturating_sub(10), + 10).
EDGE_TOLERANCE == 10
\* The alpha written by darken_not_selected_area.
DIM_ALPHA == 100
\* Bytes per pixel (the * 4 of every buffer index).
BYTES_PER_PIXEL == 4
BORDER_COLOR == <<255, 0, 255, 255>>

None == "None"

\* ------------------------------------------------- environment inputs

\* Cursor positions the window system reports, in half pixels.  They
\* include positions outside the window (a drag with the button held is
\* reported beyond the window's edges, also with negative coordinates).
PointerPositions ==
    { <<1, 1>>,      \* (0.5, 0.5)  -> (0, 0): a corner, on no edge band
      <<13, 0>>,     \* (6.5, 0)    -> (6, 0): midpoint of the top border
      <<-2, 12>>,    \* (-1, 6)     -> (0, 6): on the left border
      <<2, 23>>,     \* (1, 11.5)   -> (1, 11): on the bottom band
      <<22, 22>>,    \* (11, 11)    -> (11, 11): on the right band
      <<3, 28>> }    \* (1.5, 14)   -> (1, 14): below the window

\* Sizes a window-resize event reports.
WindowSizes == { <<ScreenW, ScreenH>>, <<ScreenW, ScreenH - 1>> }

Keys == {"Return", "F", "L", "R", "P", "T", "Escape", "A"}

\* ------------------------------------------------------------ helpers

\* `v as usize` for an f64 v given in half pixels.
AsUsize(h) == IF h < 0 THEN 0 ELSE h \div 2

\* usize::saturating_sub
SaturatingSub(a, b) == IF a < b THEN 0 ELSE a - b

\* Screen::capture(): the RGBA bytes of the screen, ScreenW * ScreenH * 4 of
\* them.  The content is the environment's; this pattern gives every byte
\* of a pixel a value that is neither DIM_ALPHA nor a BORDER_COLOR byte.
Capture ==
    [i \in 1..(ScreenW * ScreenH * BYTES_PER_PIXEL) |->
        1 + (((i - 1) * 7) % 97) + (IF (i - 1) % 4 = 3 THEN 101 ELSE 0)]

\* A DrawnItem: the enum's variant and its two points.
DrawnItem(tag, a, b) == [tag |-> tag, p0 |-> a, p1 |-> b]

VARIABLES
    original_screenshot, modified_screenshot, p0, p1, width, height,
    is_resizing, top_border_resized, right_border_resized,
    bottom_border_resized, left_border_resized,
    draw_mode, drawing_item, drawn_items, mouse_coordinates,
    pixels_frame, redraw_requested, input, control_flow, clipboard,
    phase, ev, nev, nbatch, gesture, stale, stdin, helper

screenshot_vars ==
    <<original_screenshot, modified_screenshot, p0, p1, width, height,
      is_resizing, top_border_resized, right_border_resized,
      bottom_border_resized, left_border_resized,
      draw_mode, drawing_item, drawn_items, mouse_coordinates>>

vars ==
    <<original_screenshot, modified_screenshot, p0, p1, width, height,
      is_resizing, top_border_resized, right_border_resized,
      bottom_border_resized, left_border_resized,
      draw_mode, drawing_item, drawn_items, mouse_coordinates,
      pixels_frame, redraw_requested, input, control_flow, clipboard,
      phase, ev, nev, nbatch, gesture, stale, stdin, helper>>

\* The clipboard helper process (the DAEMONIZE_ARG branch of main).
helper_vars == <<stdin, helper>>


\* Option<T>: None is <<>>, Some(v) is <<v>>.
Some(v) == <<v>>
IsSome(o) == o # <<>>
Unwrap(o) == o[1]

NoGesture == [phase |-> "none", P |-> <<0, 0>>, mode |-> None,
              store |-> <<>>, moves |-> 0]

NoInput == [escape |-> FALSE, close |-> FALSE, window_resized |-> <<>>]

\* No helper process runs in this process: main took the window branch.
NoHelper == [status |-> "none", wrote |-> <<>>]

\* ------------------------------------------------- Screenshot::new

\* Screenshot::new(width, height): the state after construction.  The
\* Pixels buffer of the window is zero-filled, width * height * 4 bytes.
NewPixels(w, h) == [i \in 1..(w * h * BYTES_PER_PIXEL) |-> 0]

Init ==
    /\ original_screenshot = Capture
    /\ modified_screenshot = Capture
    /\ is_resizing = FALSE
    /\ top_border_resized = FALSE
    /\ right_border_resized = FALSE
    /\ bottom_border_resized = FALSE
    /\ left_border_resized = FALSE
    /\ draw_mode = None
    /\ drawing_item = <<>>
    /\ drawn_items = <<>>
    /\ p0 = <<0, 0>>
    /\ p1 = <<ScreenW, ScreenH>>
    /\ width = ScreenW
    /\ height = ScreenH
    /\ mouse_coordinates = <<>>
    /\ pixels_frame = NewPixels(ScreenW, ScreenH)
    /\ redraw_requested = FALSE
    /\ input = NoInput
    /\ control_flow = "Poll"
    /\ clipboard = <<>>
    /\ phase = "events"
    /\ ev = "Init"
    /\ nev = 0
    /\ nbatch = 0
    /\ gesture = NoGesture
    /\ stale = TRUE
    /\ stdin = <<>>
    /\ helper = NoHelper

\* ------------------------------------------------- on_mouse_pressed

\* The four edge tests of on_mouse_pressed, for the point (x, y).
TopHit(x, y) ==
    /\ x > p0[1]
    /\ x < p1[1]
    /\ y >= SaturatingSub(p0[2], EDGE_TOLERANCE)
    /\ y <= p0[2] + EDGE_TOLERANCE

RightHit(x, y) ==
    /\ y > p0[2]
    /\ y < p1[2]
    /\ x >= SaturatingSub(p1[1], EDGE_TOLERANCE)
    /\ x <= p1[1] + EDGE_TOLERANCE

BottomHit(x, y) ==
    /\ x > p0[1]
    /\ x < p1[1]
    /\ y >= SaturatingSub(p1[2], EDGE_TOLERANCE)
    /\ y <= p1[2] + EDGE_TOLERANCE

LeftHit(x, y) ==
    /\ y > p0[2]
    /\ y < p1[2]
    /\ x >= SaturatingSub(p0[1], EDGE_TOLERANCE)
    /\ x <= p0[1] + EDGE_TOLERANCE

PressedEdge_swapped(x, y) ==
    IF LeftHit(x, y) THEN "left"
    ELSE IF BottomHit(x, y) THEN "bottom"
    ELSE IF RightHit(x, y) THEN "right"
    ELSE IF TopHit(x, y) THEN "top"
    ELSE "none"

\* The if / else-if chain of on_mouse_pressed: the branch taken at (x, y).
PressedEdge(x, y) ==
    IF TopHit(x, y) THEN "top"
    ELSE IF RightHit(x, y) THEN "right"
    ELSE IF BottomHit(x, y) THEN "bottom"
    ELSE IF LeftHit(x, y) THEN "left"
    ELSE "none"

\* The cursor position as on_mouse_pressed / on_mouse_move / on_mouse_released
\* read it: (x as usize, y as usize).
MousePoint == <<AsUsize(Unwrap(mouse_coordinates)[1]),
                AsUsize(Unwrap(mouse_coordinates)[2])>>

StartedItem_on_band(edge, pt) ==
    IF draw_mode # None
    THEN Some(DrawnItem(draw_mode, pt, pt))
    ELSE drawing_item

\* The drawing item after a press at pt that took branch `edge`.
StartedItem(edge, pt) ==
    IF edge = "none" /\ draw_mode # None
    THEN Some(DrawnItem(draw_mode, pt, pt))
    ELSE drawing_item

on_mouse_pressed ==
    IF IsSome(mouse_coordinates)
    THEN LET pt == MousePoint
             edge == PressedEdge(pt[1], pt[2])
         IN /\ is_resizing' = (is_resizing \/ edge # "none")
            /\ top_border_resized' = (top_border_resized \/ edge = "top")
            /\ right_border_resized' = (right_border_resized \/ edge = "right")
            /\ bottom_border_resized' = (bottom_border_resized \/ edge = "bottom")
            /\ left_border_resized' = (left_border_resized \/ edge = "left")
            /\ drawing_item' = StartedItem(edge, pt)
    ELSE UNCHANGED <<is_resizing, top_border_resized, right_border_resized,
                     bottom_border_resized, left_border_resized, drawing_item>>

\* ------------------------------------------------- on_mouse_move

\* The edge whose branch on_mouse_move takes: the first flag set, in the
\* order of its else-if chain; "none" is the final else.
MovedEdge ==
    IF is_resizing /\ top_border_resized THEN "top"
    ELSE IF is_resizing /\ right_border_resized THEN "right"
    ELSE IF is_resizing /\ bottom_border_resized THEN "bottom"
    ELSE IF is_resizing /\ left_border_resized THEN "left"
    ELSE "none"

MovedRegion_both(edge, pt) ==
    CASE edge = "top"    -> [c0 |-> pt, c1 |-> p1]
      [] edge = "right"  -> [c0 |-> p0, c1 |-> pt]
      [] edge = "bottom" -> [c0 |-> p0, c1 |-> pt]
      [] edge = "left"   -> [c0 |-> pt, c1 |-> p1]
      [] OTHER           -> [c0 |-> p0, c1 |-> p1]

MovedRegion_clamped(edge, pt) ==
    CASE edge = "top" ->
            [c0 |-> <<p0[1], IF pt[2] < p1[2] THEN pt[2] ELSE p1[2] - 1>>, c1 |-> p1]
      [] edge = "right" ->
            [c0 |-> p0, c1 |-> <<IF pt[1] > p0[1] THEN pt[1] ELSE p0[1] + 1, p1[2]>>]
      [] edge = "bottom" ->
            [c0 |-> p0, c1 |-> <<p1[1], IF pt[2] > p0[2] THEN pt[2] ELSE p0[2] + 1>>]
      [] edge = "left" ->
            [c0 |-> <<IF pt[1] < p1[1] THEN pt[1] ELSE p1[1] - 1, p0[2]>>, c1 |-> p1]
      [] OTHER -> [c0 |-> p0, c1 |-> p1]

\* The Region after a move to pt on branch `edge`.
MovedRegion(edge, pt) ==
    CASE edge = "top"    -> [c0 |-> <<p0[1], pt[2]>>, c1 |-> p1]
      [] edge = "right"  -> [c0 |-> p0, c1 |-> <<pt[1], p1[2]>>]
      [] edge = "bottom" -> [c0 |-> p0, c1 |-> <<p1[1], pt[2]>>]
      [] edge = "left"   -> [c0 |-> <<pt[1], p0[2]>>, c1 |-> p1]
      [] OTHER           -> [c0 |-> p0, c1 |-> p1]

MovedItem_starts(edge, pt) ==
    IF edge = "none" /\ draw_mode # None
    THEN IF IsSome(drawing_item) /\ Unwrap(drawing_item).tag = draw_mode
         THEN Some(DrawnItem(draw_mode, Unwrap(drawing_item).p0, pt))
         ELSE Some(DrawnItem(draw_mode, pt, pt))
    ELSE drawing_item

\* The drawing item after a move to pt on the final else branch: its end
\* point follows the cursor when its variant is the draw mode's.
MovedItem(edge, pt) ==
    IF /\ edge = "none"
       /\ draw_mode # None
       /\ IsSome(drawing_item)
       /\ Unwrap(drawing_item).tag = draw_mode
    THEN Some(DrawnItem(draw_mode, Unwrap(drawing_item).p0, pt))
    ELSE drawing_item

on_mouse_move(coordinates) ==
    LET pt == <<AsUsize(coordinates[1]), AsUsize(coordinates[2])>>
        edge == MovedEdge
    IN /\ mouse_coordinates' = Some(coordinates)
       /\ p0' = MovedRegion(edge, pt).c0
       /\ p1' = MovedRegion(edge, pt).c1
       /\ drawing_item' = MovedItem(edge, pt)

\* ------------------------------------------------- on_mouse_released

\* Whether on_mouse_released's match finds the drawing item: the draw mode
\* is Some, the item is Some and of the mode's variant, and a cursor
\* position is known.
ReleaseFinalizes ==
    /\ draw_mode # None
    /\ IsSome(drawing_item)
    /\ Unwrap(drawing_item).tag = draw_mode
    /\ IsSome(mouse_coordinates)

ReleasedItems_anchor ==
    IF ReleaseFinalizes
    THEN Append(drawn_items,
                DrawnItem(draw_mode, Unwrap(drawing_item).p0,
                          Unwrap(drawing_item).p0))
    ELSE drawn_items

\* drawn_items after on_mouse_released.
ReleasedItems ==
    IF ReleaseFinalizes
    THEN Append(drawn_items,
                DrawnItem(draw_mode, Unwrap(drawing_item).p0, MousePoint))
    ELSE drawn_items

on_mouse_released_keeps_edges ==
    /\ is_resizing' = FALSE
    /\ UNCHANGED <<top_border_resized, right_border_resized,
                   bottom_border_resized, left_border_resized>>
    /\ drawn_items' = ReleasedItems
    /\ drawing_item' = IF ReleaseFinalizes THEN <<>> ELSE drawing_item
    /\ draw_mode' = None

on_mouse_released ==
    /\ is_resizing' = FALSE
    /\ top_border_resized' = FALSE
    /\ right_border_resized' = FALSE
    /\ bottom_border_resized' = FALSE
    /\ left_border_resized' = FALSE
    /\ drawn_items' = ReleasedItems
    /\ drawing_item' = IF ReleaseFinalizes THEN <<>> ELSE drawing_item
    /\ draw_mode' = None

\* ------------------------------------------------- toggle_filling_latest

toggle_item_filling_fill_only(draw_item) ==
    CASE draw_item.tag = "Line" -> draw_item
      [] draw_item.tag = "RectBorder" ->
            DrawnItem("RectFilled", draw_item.p0, draw_item.p1)
      [] draw_item.tag = "RectFilled" -> draw_item

toggle_item_filling(draw_item) ==
    CASE draw_item.tag = "Line" -> draw_item
      [] draw_item.tag = "RectBorder" ->
            DrawnItem("RectFilled", draw_item.p0, draw_item.p1)
      [] draw_item.tag = "RectFilled" ->
            DrawnItem("RectBorder", draw_item.p0, draw_item.p1)

ToggledItems_all(items) ==
    [k \in 1..Len(items) |-> toggle_item_filling(items[k])]

\* drawn_items after toggle_filling_latest: pop, toggle, push.
ToggledItems(items) ==
    IF Len(items) > 0
    THEN Append(SubSeq(items, 1, Len(items) - 1),
                toggle_item_filling(items[Len(items)]))
    ELSE items

toggle_filling_latest ==
    drawn_items' = ToggledItems(drawn_items)

\* ------------------------------------------------- rasterizer
\* mod line, mod rectangle: draw_line, draw_rect_borders, draw_rect_filled.
\* Each overwrites the four channels of the pixels it covers with the
\* colour; a pixel outside the buffer (x >= width, or a row beyond the
\* buffer's end) is clipped.

Abs(a) == IF a < 0 THEN -a ELSE a
Sign(a) == IF a < 0 THEN -1 ELSE 1
Min(a, b) == IF a < b THEN a ELSE b
Max(a, b) == IF a < b THEN b ELSE a

\* Whether draw_line from a to b writes pixel pt: one pixel per step along
\* the dominant axis.
OnLine(a, b, pt) ==
    LET dx == Abs(b[1] - a[1])
        dy == Abs(b[2] - a[2])
        sx == Sign(b[1] - a[1])
        sy == Sign(b[2] - a[2])
        i  == (pt[1] - a[1]) * sx
        j  == (pt[2] - a[2]) * sy
    IN IF dx = 0 /\ dy = 0 THEN pt = a
       ELSE IF dx >= dy
       THEN /\ i >= 0
            /\ i <= dx
            /\ pt[2] = a[2] + sy * ((2 * i * dy + dx) \div (2 * dx))
       ELSE /\ j >= 0
            /\ j <= dy
            /\ pt[1] = a[1] + sx * ((2 * j * dx + dy) \div (2 * dy))

\* Whether draw_rect_borders for the box (a, b) writes pixel pt: the four
\* lines between the box's corners, each horizontal or vertical.
OnRectBorder(a, b, pt) ==
    \/ /\ pt[2] = a[2] \/ pt[2] = b[2]
       /\ pt[1] >= Min(a[1], b[1])
       /\ pt[1] <= Max(a[1], b[1])
    \/ /\ pt[1] = a[1] \/ pt[1] = b[1]
       /\ pt[2] >= Min(a[2], b[2])
       /\ pt[2] <= Max(a[2], b[2])

\* Whether draw_rect_filled for the box (a, b) writes pixel pt.
InRectFilled(a, b, pt) ==
    /\ pt[1] >= Min(a[1], b[1])
    /\ pt[1] <= Max(a[1], b[1])
    /\ pt[2] >= Min(a[2], b[2])
    /\ pt[2] <= Max(a[2], b[2])

\* The pixel <<x, y>> that holds byte i (1-based) of a buffer of row
\* length w, and the byte's channel 0..3.
PixelOf(i, w) == <<((i - 1) \div BYTES_PER_PIXEL) % w,
                   ((i - 1) \div BYTES_PER_PIXEL) \div w>>
ChannelOf(i) == (i - 1) % BYTES_PER_PIXEL

\* Rust index of channel c of pixel (x, y): y * (width * 4) + (x * 4) + c.
IndexOf(x, y, c, w) == y * (w * BYTES_PER_PIXEL) + (x * BYTES_PER_PIXEL) + c

\* The three primitives, byte by byte: v is the byte at index i (1-based)
\* before the call, the result is that byte after it.
draw_line(v, i, a, b, w, color) ==
    IF OnLine(a, b, PixelOf(i, w)) THEN color[ChannelOf(i) + 1] ELSE v

draw_rect_borders(v, i, a, b, w, color) ==
    IF OnRectBorder(a, b, PixelOf(i, w)) THEN color[ChannelOf(i) + 1] ELSE v

draw_rect_filled(v, i, a, b, w, color) ==
    IF InRectFilled(a, b, PixelOf(i, w)) THEN color[ChannelOf(i) + 1] ELSE v

\* ------------------------------------------------- Screenshot::draw
\* The steps of draw, byte by byte as above.

draw_draw_item(v, i, draw_item) ==
    CASE draw_item.tag = "Line" ->
            draw_line(v, i, draw_item.p0, draw_item.p1, width, BORDER_COLOR)
      [] draw_item.tag = "RectBorder" ->
            draw_rect_borders(v, i, draw_item.p0, draw_item.p1, width,
                              BORDER_COLOR)
      [] draw_item.tag = "RectFilled" ->
            draw_rect_filled(v, i, draw_item.p0, draw_item.p1, width,
                             BORDER_COLOR)

draw_boundaries(v, i) ==
    draw_rect_borders(v, i, p0, p1, width, BORDER_COLOR)

NotSelected_strict(x, y) ==
    x <= p0[1] \/ x >= p1[1] \/ y <= p0[2] \/ y >= p1[2]

\* The test of darken_not_selected_area: (x, y) is outside the box.
NotSelected(x, y) ==
    x < p0[1] \/ x > p1[1] \/ y < p0[2] \/ y > p1[2]

\* darken_not_selected_area indexes the buffer for every (x, y) of the
\* window that is not selected; an index beyond the buffer panics.
DarkenPanics(buf) ==
    \E y \in 0..(height - 1) : \E x \in 0..(width - 1) :
        NotSelected(x, y) /\ IndexOf(x, y, 3, width) >= Len(buf)

darken_not_selected_area(v, i) ==
    IF ChannelOf(i) # 3 THEN v
    ELSE LET pt == PixelOf(i, width)
         IN IF pt[2] < height /\ NotSelected(pt[1], pt[2])
            THEN DIM_ALPHA ELSE v

RECURSIVE DrawItems(_, _, _, _)
\* The for loop of draw over drawn_items, from the k-th item on.
DrawItems(v, i, items, k) ==
    IF k > Len(items) THEN v
    ELSE DrawItems(draw_draw_item(v, i, items[k]), i, items, k + 1)

\* The drawing item's step of draw.
DrawDrawing(v, i) ==
    IF IsSome(drawing_item)
    THEN draw_draw_item(v, i, Unwrap(drawing_item)) ELSE v

Composite_darken_last ==
    [i \in 1..Len(original_screenshot) |->
        darken_not_selected_area(
            DrawDrawing(
                DrawItems(draw_boundaries(original_screenshot[i], i),
                          i, drawn_items, 1),
                i),
            i)]

\* modified_screenshot after draw: the original, the boundaries, the
\* darkening, the drawn items in order, then the drawing item.
Composite ==
    [i \in 1..Len(original_screenshot) |->
        DrawDrawing(
            DrawItems(
                darken_not_selected_area(
                    draw_boundaries(original_screenshot[i], i), i),
                i, drawn_items, 1),
            i)]

draw_over_previous ==
    /\ modified_screenshot' =
          [i \in 1..Len(modified_screenshot) |->
              DrawDrawing(
                  DrawItems(
                      darken_not_selected_area(
                          draw_boundaries(modified_screenshot[i], i), i),
                      i, drawn_items, 1),
                  i)]
    /\ pixels_frame' = IF Len(pixels_frame) = Len(modified_screenshot')
                       THEN modified_screenshot' ELSE pixels_frame

\* draw(pixels): rebuilds modified_screenshot and copies it to the window's
\* buffer when the lengths agree.
draw ==
    /\ modified_screenshot' = Composite
    /\ pixels_frame' = IF Len(pixels_frame) = Len(modified_screenshot')
                       THEN modified_screenshot' ELSE pixels_frame

\* ------------------------------------------------- the exported images

\* struct Image.  A usize that wrapped around (a release build) is written
\* as the negative number v that stands for 2^64 + v.
Image(w, h, bytes) == [width |-> w, height |-> h, bytes |-> bytes]

get_focused_image == Image(width, height, modified_screenshot)

\* How the build treats an integer overflow: "debug" panics
\* (overflow-checks on), "release" wraps.
Builds == {"debug", "release"}

ClippedBytes_with_border ==
    LET x_lo == p0[1]
        y_lo == p0[2]
        ncols == p1[1] - 1 - (p0[1] + 1)
        nrows == p1[2] - 1 - (p0[2] + 1)
    IN [k \in 1..(nrows * ncols * BYTES_PER_PIXEL) |->
          modified_screenshot[
              IndexOf(x_lo + (((k - 1) \div BYTES_PER_PIXEL) % ncols),
                      y_lo + (((k - 1) \div BYTES_PER_PIXEL) \div ncols),
                      ChannelOf(k), width) + 1]]

\* The bytes the two for loops of get_clipped_image push when both ranges
\* p0.1 + 1..p1.1 - 1 and p0.0 + 1..p1.0 - 1 are non-empty and every index
\* is inside the buffer: row by row, four bytes per pixel.
ClippedBytes ==
    LET x_lo == p0[1] + 1
        y_lo == p0[2] + 1
        ncols == p1[1] - 1 - x_lo
        nrows == p1[2] - 1 - y_lo
    IN [k \in 1..(nrows * ncols * BYTES_PER_PIXEL) |->
          modified_screenshot[
              IndexOf(x_lo + (((k - 1) \div BYTES_PER_PIXEL) % ncols),
                      y_lo + (((k - 1) \div BYTES_PER_PIXEL) \div ncols),
                      ChannelOf(k), width) + 1]]

\* get_clipped_image under `build`: [kind |-> "Ok", image |-> the Image],
\* [kind |-> "Panic"] (an overflow in a debug build, an index out of
\* bounds) or [kind |-> "Hang"] (a release build's loop over a range whose
\* end wrapped to usize::MAX, with nothing to read).
get_clipped_image(build) ==
    LET yUnder == p1[2] = 0                   \* self.p1.1 - 1 overflows
        xUnder == p1[1] = 0                   \* self.p1.0 - 1 overflows
        rows == yUnder \/ p0[2] + 1 < p1[2] - 1   \* the y range is not empty
        cols == xUnder \/ p0[1] + 1 < p1[1] - 1   \* the x range is not empty
        wUnder == p1[1] - p0[1] - 2 < 0       \* self.p1.0 - self.p0.0 - 2
        hUnder == p1[2] - p0[2] - 2 < 0       \* self.p1.1 - self.p0.1 - 2
        lastIndex == IndexOf(p1[1] - 2, p1[2] - 2, 3, width)
        img(bytes) == [kind |-> "Ok",
                       image |-> Image(p1[1] - p0[1] - 2,
                                       p1[2] - p0[2] - 2, bytes)]
        panic == [kind |-> "Panic", image |-> Image(0, 0, <<>>)]
        hang == [kind |-> "Hang", image |-> Image(0, 0, <<>>)]
    IN IF build = "debug"
       THEN IF yUnder THEN panic
            ELSE IF rows /\ xUnder THEN panic
            ELSE IF rows /\ cols /\ lastIndex >= Len(modified_screenshot)
                 THEN panic
            ELSE IF wUnder \/ hUnder THEN panic
            ELSE IF rows /\ cols THEN img(ClippedBytes)
            ELSE img(<<>>)
       ELSE IF rows /\ cols
            THEN IF yUnder \/ xUnder THEN panic
                 ELSE IF lastIndex >= Len(modified_screenshot) THEN panic
                 ELSE img(ClippedBytes)
            ELSE IF rows /\ yUnder THEN hang
            ELSE img(<<>>)

\* ------------------------------------------------- the event loop (main)

Running == control_flow = "Poll"

\* An input event is delivered: the session runs, the loop is between
\* MainEventsCleared events, and the environment's bounds allow it.
InputEvent(kind) ==
    /\ Running
    /\ phase = "events"
    /\ nev < MaxEvents
    /\ nbatch < MaxBatch
    /\ nev' = nev + 1
    /\ nbatch' = nbatch + 1
    /\ ev' = kind
    /\ stale' = TRUE
    /\ UNCHANGED helper_vars

\* WindowEvent::CursorMoved { position }
CursorMoved ==
    \E position \in PointerPositions :
        /\ InputEvent("CursorMoved")
        /\ on_mouse_move(position)
        /\ redraw_requested' = (redraw_requested \/ is_resizing)
        /\ gesture' = IF gesture.phase = "pressed"
                      THEN [gesture EXCEPT !.moves = Min(@ + 1, 2)]
                      ELSE NoGesture
        /\ UNCHANGED <<original_screenshot, modified_screenshot, width,
                       height, is_resizing, top_border_resized,
                       right_border_resized, bottom_border_resized,
                       left_border_resized, draw_mode, drawn_items,
                       pixels_frame, input, control_flow, clipboard, phase>>

Idle ==
    /\ ~is_resizing
    /\ ~top_border_resized
    /\ ~right_border_resized
    /\ ~bottom_border_resized
    /\ ~left_border_resized
    /\ drawing_item = <<>>

\* WindowEvent::MouseInput { state: Pressed }
MouseInputPressed ==
    /\ InputEvent("Pressed")
    /\ on_mouse_pressed
    /\ redraw_requested' = TRUE
    /\ gesture' = IF /\ Idle
                     /\ IsSome(mouse_coordinates)
                     /\ draw_mode # None
                     /\ PressedEdge(MousePoint[1], MousePoint[2]) = "none"
                  THEN [phase |-> "pressed", P |-> MousePoint,
                        mode |-> draw_mode, store |-> drawn_items,
                        moves |-> 0]
                  ELSE NoGesture
    /\ UNCHANGED <<original_screenshot, modified_screenshot, p0, p1, width,
                   height, draw_mode, drawn_items, mouse_coordinates,
                   pixels_frame, input, control_flow, clipboard, phase>>

\* WindowEvent::MouseInput { state: Released }
MouseInputReleased ==
    /\ InputEvent("Released")
    /\ on_mouse_released
    /\ redraw_requested' = TRUE
    /\ gesture' = IF gesture.phase = "pressed" /\ gesture.moves = 2
                  THEN [gesture EXCEPT !.phase = "released"]
                  ELSE NoGesture
    /\ UNCHANGED <<original_screenshot, modified_screenshot, p0, p1, width,
                   height, mouse_coordinates, pixels_frame, input,
                   control_flow, clipboard, phase>>

\* KeyboardInput Return: export the clipped image and exit.
KeyboardInputReturn ==
    \E build \in Builds :
        LET out == get_clipped_image(build)
        IN /\ InputEvent("Return")
           /\ clipboard' = IF out.kind = "Ok" THEN Some(out.image)
                           ELSE clipboard
           /\ control_flow' = IF out.kind = "Ok" THEN "Exit" ELSE out.kind
           /\ gesture' = NoGesture
           /\ UNCHANGED <<screenshot_vars, pixels_frame, redraw_requested,
                          input, phase>>

\* KeyboardInput F: export the whole image and exit.
KeyboardInputF ==
    /\ InputEvent("F")
    /\ clipboard' = Some(get_focused_image)
    /\ control_flow' = "Exit"
    /\ gesture' = NoGesture
    /\ UNCHANGED <<screenshot_vars, pixels_frame, redraw_requested, input,
                   phase>>

ShapeOf(key) ==
    CASE key = "L" -> "Line"
      [] key = "R" -> "RectBorder"
      [] key = "P" -> "RectFilled"

KeyboardInputShape_retags ==
    \E key \in {"L", "R", "P"} :
        /\ InputEvent(key)
        /\ draw_mode' = ShapeOf(key)
        /\ drawing_item' =
              IF IsSome(drawing_item)
              THEN Some(DrawnItem(ShapeOf(key), Unwrap(drawing_item).p0,
                                  Unwrap(drawing_item).p1))
              ELSE drawing_item
        /\ redraw_requested' = TRUE
        /\ gesture' = NoGesture
        /\ UNCHANGED <<original_screenshot, modified_screenshot, p0, p1,
                       width, height, is_resizing, top_border_resized,
                       right_border_resized, bottom_border_resized,
                       left_border_resized, drawn_items,
                       mouse_coordinates, pixels_frame, input, control_flow,
                       clipboard, phase>>

\* KeyboardInput L, R or P: select the draw mode.
KeyboardInputShape ==
    \E key \in {"L", "R", "P"} :
        /\ InputEvent(key)
        /\ draw_mode' = ShapeOf(key)
        /\ redraw_requested' = TRUE
        /\ gesture' = NoGesture
        /\ UNCHANGED <<original_screenshot, modified_screenshot, p0, p1,
                       width, height, is_resizing, top_border_resized,
                       right_border_resized, bottom_border_resized,
                       left_border_resized, drawing_item, drawn_items,
                       mouse_coordinates, pixels_frame, input, control_flow,
                       clipboard, phase>>

\* KeyboardInput T: toggle the latest drawn item.
KeyboardInputT ==
    /\ InputEvent("T")
    /\ toggle_filling_latest
    /\ redraw_requested' = TRUE
    /\ gesture' = NoGesture
    /\ UNCHANGED <<original_screenshot, modified_screenshot, p0, p1, width,
                   height, is_resizing, top_border_resized,
                   right_border_resized, bottom_border_resized,
                   left_border_resized, draw_mode, drawing_item,
                   mouse_coordinates, pixels_frame, input, control_flow,
                   clipboard, phase>>

\* KeyboardInput of any other key: Escape is recorded by the input helper
\* (input.update) and acted on at MainEventsCleared.
KeyboardInputOther ==
    \E key \in {"Escape", "A"} :
        /\ InputEvent(key)
        /\ redraw_requested' = TRUE
        /\ input' = [input EXCEPT !.escape = @ \/ key = "Escape"]
        /\ gesture' = NoGesture
        /\ UNCHANGED <<screenshot_vars, pixels_frame, control_flow,
                       clipboard, phase>>

\* WindowEvent::CloseRequested: recorded by the input helper.
CloseRequested ==
    /\ InputEvent("CloseRequested")
    /\ input' = [input EXCEPT !.close = TRUE]
    /\ gesture' = NoGesture
    /\ UNCHANGED <<screenshot_vars, pixels_frame, redraw_requested,
                   control_flow, clipboard, phase>>

\* WindowEvent::Resized(size): recorded by the input helper.
Resized ==
    \E size \in WindowSizes :
        /\ InputEvent("Resized")
        /\ input' = [input EXCEPT !.window_resized = Some(size)]
        /\ gesture' = NoGesture
        /\ UNCHANGED <<screenshot_vars, pixels_frame, redraw_requested,
                       control_flow, clipboard, phase>>

resize_viewport_keeps_pointer(w, h) ==
    /\ original_screenshot' = Capture
    /\ modified_screenshot' = Capture
    /\ is_resizing' = FALSE
    /\ top_border_resized' = FALSE
    /\ right_border_resized' = FALSE
    /\ bottom_border_resized' = FALSE
    /\ left_border_resized' = FALSE
    /\ draw_mode' = None
    /\ drawing_item' = <<>>
    /\ drawn_items' = <<>>
    /\ p0' = <<0, 0>>
    /\ p1' = <<w, h>>
    /\ width' = w
    /\ height' = h
    /\ mouse_coordinates' = mouse_coordinates

\* resize_viewport(width, height): *self = Self::new(width, height).
resize_viewport(w, h) ==
    /\ original_screenshot' = Capture
    /\ modified_screenshot' = Capture
    /\ is_resizing' = FALSE
    /\ top_border_resized' = FALSE
    /\ right_border_resized' = FALSE
    /\ bottom_border_resized' = FALSE
    /\ left_border_resized' = FALSE
    /\ draw_mode' = None
    /\ drawing_item' = <<>>
    /\ drawn_items' = <<>>
    /\ p0' = <<0, 0>>
    /\ p1' = <<w, h>>
    /\ width' = w
    /\ height' = h
    /\ mouse_coordinates' = <<>>

\* Event::MainEventsCleared: input.update(&event) returns true.
MainEventsCleared ==
    /\ Running
    /\ phase = "events"
    /\ ev' = "MainEventsCleared"
    /\ nbatch' = 0
    /\ input' = NoInput
    /\ UNCHANGED <<nev, clipboard, stale, helper_vars>>
    /\ IF input.escape \/ input.close
       THEN /\ control_flow' = "Exit"
            /\ UNCHANGED <<screenshot_vars, pixels_frame, redraw_requested,
                           phase, gesture>>
       ELSE /\ control_flow' = control_flow
            /\ redraw_requested' = TRUE
            /\ phase' = "redraw"
            /\ IF IsSome(input.window_resized)
               THEN LET size == Unwrap(input.window_resized)
                    IN /\ pixels_frame' = NewPixels(size[1], size[2])
                       /\ resize_viewport(size[1], size[2])
                       /\ gesture' = NoGesture
               ELSE UNCHANGED <<screenshot_vars, pixels_frame, gesture>>

\* Event::RedrawRequested: screenshot.draw(pixels.frame_mut()).
RedrawRequested ==
    /\ Running
    /\ phase = "redraw"
    /\ ev' = "RedrawRequested"
    /\ UNCHANGED <<original_screenshot, p0, p1, width, height, is_resizing,
                   top_border_resized, right_border_resized,
                   bottom_border_resized, left_border_resized, draw_mode,
                   drawing_item, drawn_items, mouse_coordinates, input,
                   clipboard, nev, nbatch, gesture, helper_vars>>
    /\ IF DarkenPanics(original_screenshot)
       THEN /\ control_flow' = "Panic"
            /\ UNCHANGED <<modified_screenshot, pixels_frame,
                           redraw_requested, phase, stale>>
       ELSE /\ draw
            /\ stale' = FALSE
            /\ redraw_requested' = FALSE
            /\ phase' = "events"
            /\ control_flow' = control_flow

Next ==
    \/ CursorMoved
    \/ MouseInputPressed
    \/ MouseInputReleased
    \/ KeyboardInputReturn
    \/ KeyboardInputF
    \/ KeyboardInputShape
    \/ KeyboardInputT
    \/ KeyboardInputOther
    \/ CloseRequested
    \/ Resized
    \/ MainEventsCleared
    \/ RedrawRequested

Spec == Init /\ [][Next]_vars

\* ------------------------------------------------- a session in progress

\* States of a session some gestures after its start, idle and redrawn:
\*   - two items were drawn from the corner (0, 0) in the initial Region
\*     (keys R and L; press at (0, 0), release at (11, 11) and at (6, 0)),
\*     then the top edge was dragged from (6, 0) down to y = 6;
\*   - a line and a rectangle were drawn from the corner (0, 0) (keys L and
\*     P), the Region is still the initial one.
\* The cursor was then moved back to the corner (0.5, 0.5), and a shape key
\* may have been pressed.
SessionStates ==
    { [items |-> << DrawnItem("RectBorder", <<0, 0>>, <<11, 11>>),
                    DrawnItem("Line", <<0, 0>>, <<6, 0>>) >>,
       c0 |-> <<0, 6>>, c1 |-> <<ScreenW, ScreenH>>],
      [items |-> << DrawnItem("Line", <<0, 0>>, <<6, 0>>),
                    DrawnItem("RectFilled", <<0, 0>>, <<0, 6>>) >>,
       c0 |-> <<0, 0>>, c1 |-> <<ScreenW, ScreenH>>] }

DrawModes == {None, "Line", "RectBorder", "RectFilled"}

InitSession ==
    \E st \in SessionStates : \E mode \in DrawModes :
        /\ original_screenshot = Capture
        /\ is_resizing = FALSE
        /\ top_border_resized = FALSE
        /\ right_border_resized = FALSE
        /\ bottom_border_resized = FALSE
        /\ left_border_resized = FALSE
        /\ draw_mode = mode
        /\ drawing_item = <<>>
        /\ drawn_items = st.items
        /\ p0 = st.c0
        /\ p1 = st.c1
        /\ width = ScreenW
        /\ height = ScreenH
        /\ mouse_coordinates = Some(<<1, 1>>)
        /\ modified_screenshot = Composite
        /\ pixels_frame = modified_screenshot
        /\ redraw_requested = FALSE
        /\ input = NoInput
        /\ control_flow = "Poll"
        /\ clipboard = <<>>
        /\ phase = "events"
        /\ ev = "Init"
        /\ nev = MaxEvents - SessionBudget
        /\ nbatch = 0
        /\ gesture = NoGesture
        /\ stale = FALSE
        /\ stdin = <<>>
        /\ helper = NoHelper

SpecSession == InitSession /\ [][Next]_vars

\* ------------------------------------------------- the clipboard helper
\* main started with DAEMONIZE_ARG: read standard input to a String, parse
\* it as Option<Image>, write the image to the clipboard when there is one.

\* Standard input is a sequence of pieces: the text of a serialized Image,
\* the text null, an opening brace, a blank, and the single bytes 0xC3,
\* 0xA9 (together the UTF-8 encoding of one character) and 0xFF.
StdinPieces == {"record", "null", "{", " ", "xC3", "xA9", "xFF"}

MaxStdin == 3

RECURSIVE Utf8Valid(_, _)
\* Whether the pieces from position k on are valid UTF-8: 0xC3 leads a
\* two-byte sequence and needs a continuation byte, a continuation byte or
\* 0xFF on its own is invalid.
Utf8Valid(pieces, k) ==
    IF k > Len(pieces) THEN TRUE
    ELSE IF pieces[k] = "xC3"
         THEN /\ k < Len(pieces)
              /\ pieces[k + 1] = "xA9"
              /\ Utf8Valid(pieces, k + 2)
    ELSE IF pieces[k] \in {"xA9", "xFF"} THEN FALSE
    ELSE Utf8Valid(pieces, k + 1)

\* The pieces that are not JSON whitespace, in order.
Significant(pieces) == SelectSeq(pieces, LAMBDA c : c # " ")

\* serde_json::from_str::<Option<Image>>(&buf).ok(): Some(image) for one
\* Image record, None for null (Ok(None)) and for every parse error.
from_str(pieces) ==
    IF Significant(pieces) = <<"record">> THEN Some("record") ELSE <<>>

\* The helper's run on its standard input.
Daemonize ==
    /\ helper.status = "started"
    /\ helper' = IF ~Utf8Valid(stdin, 1)
                 THEN [status |-> "panicked", wrote |-> <<>>]
                 ELSE [status |-> "exited", wrote |-> from_str(stdin)]
    /\ UNCHANGED <<screenshot_vars, pixels_frame, redraw_requested, input,
                   control_flow, clipboard, phase, ev, nev, nbatch, gesture,
                   stale, stdin>>

StdinInputs ==
    UNION { [1..n -> StdinPieces] : n \in 0..MaxStdin }

InitHelper ==
    /\ original_screenshot = <<>>
    /\ modified_screenshot = <<>>
    /\ is_resizing = FALSE
    /\ top_border_resized = FALSE
    /\ right_border_resized = FALSE
    /\ bottom_border_resized = FALSE
    /\ left_border_resized = FALSE
    /\ draw_mode = None
    /\ drawing_item = <<>>
    /\ drawn_items = <<>>
    /\ p0 = <<0, 0>>
    /\ p1 = <<0, 0>>
    /\ width = 0
    /\ height = 0
    /\ mouse_coordinates = <<>>
    /\ pixels_frame = <<>>
    /\ redraw_requested = FALSE
    /\ input = NoInput
    /\ control_flow = "Helper"
    /\ clipboard = <<>>
    /\ phase = "helper"
    /\ ev = "Init"
    /\ nev = 0
    /\ nbatch = 0
    /\ gesture = NoGesture
    /\ stale = FALSE
    /\ stdin \in StdinInputs
    /\ helper = [status |-> "started", wrote |-> <<>>]

NextHelper == Daemonize

SpecHelper == InitHelper /\ [][NextHelper]_vars

\* ======================================================== the claims

\* C1: after every pointer release no in-progress (drawing) item remains,
\* also when a shape key (L/R/P) was pressed between press and release.
C1_NoDrawingItemAfterRelease ==
    ev = "Released" => drawing_item = <<>>

\* C2: at most one of the four resize-edge flags is set, and none is set
\* while an in-progress drawing item exists.
FlagCount ==
    (IF top_border_resized THEN 1 ELSE 0)
    + (IF right_border_resized THEN 1 ELSE 0)
    + (IF bottom_border_resized THEN 1 ELSE 0)
    + (IF left_border_resized THEN 1 ELSE 0)

C2_ResizeEdgeExclusive ==
    /\ FlagCount <= 1
    /\ FlagCount > 0 => drawing_item = <<>>

\* C3: from an idle state with a draw mode selected and the cursor at a
\* point P on no edge band, press, move to Q, move to R, release appends
\* exactly one item mode(P, R) to the store, leaves the earlier items as
\* they were and resets the draw mode to None.  (gesture records P, the
\* mode and the store at the press, and that two moves and nothing else
\* followed before the release.)
C3_GestureAppendsOneItem ==
    gesture.phase = "released" =>
        /\ drawn_items =
              Append(gesture.store,
                     DrawnItem(gesture.mode, gesture.P, MousePoint))
        /\ draw_mode = None
        /\ drawing_item = <<>>

C3_Witness ==
    /\ gesture.phase = "released"
    /\ gesture.mode = "Line"
    /\ Len(gesture.store) = 2
    /\ Len(drawn_items) = 3
    /\ MousePoint # gesture.P

\* C4: the fill-toggle key changes only the last store element:
\* RectBorder <-> RectFilled with the same corners, Line as it is; a second
\* toggle restores the store; an empty store stays empty; the length, the
\* other elements, the Region, the draw mode and the drawing item are
\* unchanged.
ToggledTag(tag) ==
    CASE tag = "RectBorder" -> "RectFilled"
      [] tag = "RectFilled" -> "RectBorder"
      [] tag = "Line" -> "Line"

C4_ToggleStep ==
    LET n == Len(drawn_items)
    IN /\ Len(drawn_items') = n
       /\ \A k \in 1..(n - 1) : drawn_items'[k] = drawn_items[k]
       /\ n > 0 =>
            /\ drawn_items'[n].tag = ToggledTag(drawn_items[n].tag)
            /\ drawn_items'[n].p0 = drawn_items[n].p0
            /\ drawn_items'[n].p1 = drawn_items[n].p1
       /\ ToggledItems(drawn_items') = drawn_items
       /\ UNCHANGED <<p0, p1, draw_mode, drawing_item>>

C4_ToggleChangesOnlyLast ==
    [][ev' = "T" => C4_ToggleStep]_vars

C4_Witness ==
    /\ ev = "T"
    /\ Len(drawn_items) = 2
    /\ drawn_items[2] = DrawnItem("RectBorder", <<0, 0>>, <<0, 6>>)

\* C5: a pointer move while an edge is being resized sets the one
\* coordinate of that edge (top: p0.y, right: p1.x, bottom: p1.y, left:
\* p0.x) to the pointer's coordinate on that axis and leaves the other
\* three Region coordinates, the store, the drawing item and the draw mode
\* as they were.  The edge being resized is the one whose flag is set; were
\* two flags set, it is the first of them in the order top, right, bottom,
\* left.
ResizedEdge ==
    IF top_border_resized THEN "top"
    ELSE IF right_border_resized THEN "right"
    ELSE IF bottom_border_resized THEN "bottom"
    ELSE "left"

C5_MoveStep ==
    LET x == AsUsize(Unwrap(mouse_coordinates')[1])
        y == AsUsize(Unwrap(mouse_coordinates')[2])
    IN /\ ResizedEdge = "top" => p0' = <<p0[1], y>> /\ p1' = p1
       /\ ResizedEdge = "right" => p0' = p0 /\ p1' = <<x, p1[2]>>
       /\ ResizedEdge = "bottom" => p0' = p0 /\ p1' = <<p1[1], y>>
       /\ ResizedEdge = "left" => p0' = <<x, p0[2]>> /\ p1' = p1
       /\ UNCHANGED <<drawn_items, drawing_item, draw_mode>>

InSpanX(pt) == p0[1] < pt[1] /\ pt[1] < p1[1]
InSpanY(pt) == p0[2] < pt[2] /\ pt[2] < p1[2]
OnTopBand(pt) == InSpanX(pt) /\ Abs(pt[2] - p0[2]) <= EDGE_TOLERANCE
OnRightBand(pt) == InSpanY(pt) /\ Abs(pt[1] - p1[1]) <= EDGE_TOLERANCE
OnBottomBand(pt) == InSpanX(pt) /\ Abs(pt[2] - p1[2]) <= EDGE_TOLERANCE
OnLeftBand(pt) == InSpanY(pt) /\ Abs(pt[1] - p0[1]) <= EDGE_TOLERANCE
OnSomeBand(pt) ==
    OnTopBand(pt) \/ OnRightBand(pt) \/ OnBottomBand(pt) \/ OnLeftBand(pt)

\* The first band, in the order top, right, bottom, left, that holds pt.
FirstBand(pt) ==
    IF OnTopBand(pt) THEN "top"
    ELSE IF OnRightBand(pt) THEN "right"
    ELSE IF OnBottomBand(pt) THEN "bottom"
    ELSE IF OnLeftBand(pt) THEN "left"
    ELSE "none"

\* C7: a press on an edge band starts a resize of that edge and never an
\* annotation, whatever the draw mode: the drawing item and the store are
\* unchanged by it.  A press creates a drawing item only off every band
\* with a draw mode selected, and then both corners are the press point.
C7_PressStep ==
    LET known == IsSome(mouse_coordinates)
        pt == IF known THEN MousePoint ELSE <<0, 0>>
        item == Some(DrawnItem(draw_mode, pt, pt))
    IN /\ drawn_items' = drawn_items
       /\ (known /\ OnSomeBand(pt)) =>
            /\ drawing_item' = drawing_item
            /\ is_resizing'
            /\ FirstBand(pt) = "top" => top_border_resized'
            /\ FirstBand(pt) = "right" => right_border_resized'
            /\ FirstBand(pt) = "bottom" => bottom_border_resized'
            /\ FirstBand(pt) = "left" => left_border_resized'
       /\ drawing_item' # drawing_item =>
            /\ known
            /\ ~OnSomeBand(pt)
            /\ draw_mode # None
            /\ drawing_item' = item
       /\ (known /\ ~OnSomeBand(pt) /\ draw_mode # None) =>
            drawing_item' = item

C7_PressOnBandNeverDraws ==
    [][ev' = "Pressed" => C7_PressStep]_vars

C7_Witness ==
    /\ ev = "Pressed"
    /\ is_resizing
    /\ top_border_resized
    /\ draw_mode = "Line"
    /\ drawing_item = <<>>
    /\ drawn_items = <<>>

\* C6: in every idle state whose Region has p0 < p1 on both axes, a press
\* at any pixel selects the first band, in the order top, right, bottom,
\* left, that holds the pixel, and no edge when no band holds it; when the
\* Region is at least two pixels wide and high, the midpoint of each of
\* its four borders selects exactly that border's edge or an earlier one
\* in the order, never none.
Ordered == p0[1] < p1[1] /\ p0[2] < p1[2]

ProbeXs == 0..(ScreenW + EDGE_TOLERANCE + 1)
ProbeYs == 0..(ScreenH + EDGE_TOLERANCE + 1)

MidX == (p0[1] + p1[1]) \div 2
MidY == (p0[2] + p1[2]) \div 2
BorderMidpoints ==
    {<<MidX, p0[2]>>, <<p1[1], MidY>>, <<MidX, p1[2]>>, <<p0[1], MidY>>}

C6_PriorityOrder ==
    \A x \in ProbeXs, y \in ProbeYs :
        PressedEdge(x, y) = FirstBand(<<x, y>>)

C6_EdgeHitPriority ==
    (Idle /\ Ordered) =>
        /\ C6_PriorityOrder
        /\ (p1[1] - p0[1] >= 2 /\ p1[2] - p0[2] >= 2) =>
              \A m \in BorderMidpoints : PressedEdge(m[1], m[2]) # "none"

\* C6 as the specification words it: the midpoints select an edge for
\* every Region with p0 < p1.
C6_EdgeHitPriority_AnyOrdered ==
    (Idle /\ Ordered) =>
        /\ C6_PriorityOrder
        /\ \A m \in BorderMidpoints : PressedEdge(m[1], m[2]) # "none"

C6_Witness ==
    /\ ev = "Pressed"
    /\ IsSome(mouse_coordinates)
    /\ Ordered
    /\ p1[1] - p0[1] >= 2
    /\ p1[2] - p0[2] >= 2
    /\ MousePoint = <<MidX, p0[2]>>
    /\ top_border_resized
    /\ FlagCount = 1

\* The byte of channel c of pixel (x, y) in a row-major buffer of width w.
ByteAt(buf, x, y, c, w) == buf[IndexOf(x, y, c, w) + 1]

\* C8: when p1.x - p0.x > 2 and p1.y - p0.y > 2, the copy key exports an
\* image of width p1.x - p0.x - 2 and height p1.y - p0.y - 2 with
\* width * height * 4 bytes, whose pixel (i, j) is the working buffer's
\* pixel (p0.x + 1 + i, p0.y + 1 + j), and the program exits normally.
C8_ClippedExport ==
    (ev = "Return" /\ p1[1] - p0[1] > 2 /\ p1[2] - p0[2] > 2) =>
        /\ control_flow = "Exit"
        /\ IsSome(clipboard)
        /\ LET img == Unwrap(clipboard)
               w == p1[1] - p0[1] - 2
               h == p1[2] - p0[2] - 2
           IN /\ img.width = w
              /\ img.height = h
              /\ Len(img.bytes) = w * h * BYTES_PER_PIXEL
              /\ \A i \in 0..(w - 1), j \in 0..(h - 1), c \in 0..3 :
                    ByteAt(img.bytes, i, j, c, w) =
                        ByteAt(modified_screenshot,
                               p0[1] + 1 + i, p0[2] + 1 + j, c, width)

\* C9: when p1.x - p0.x <= 2 or p1.y - p0.y <= 2, the copy key yields an
\* empty image without underflow, out-of-range access or abort: the
\* program exits normally and the exported width, height and byte count
\* are consistent.
C9_DegenerateExportIsEmpty ==
    (ev = "Return" /\ (p1[1] - p0[1] <= 2 \/ p1[2] - p0[2] <= 2)) =>
        /\ control_flow = "Exit"
        /\ IsSome(clipboard)
        /\ LET img == Unwrap(clipboard)
           IN /\ img.width >= 0
              /\ img.height >= 0
              /\ Len(img.bytes) = img.width * img.height * BYTES_PER_PIXEL
              /\ Len(img.bytes) = 0

\* Pixel (x, y) is covered by a store item or by the drawing item.
Covers(item, x, y) ==
    CASE item.tag = "Line" -> OnLine(item.p0, item.p1, <<x, y>>)
      [] item.tag = "RectBorder" -> OnRectBorder(item.p0, item.p1, <<x, y>>)
      [] item.tag = "RectFilled" -> InRectFilled(item.p0, item.p1, <<x, y>>)

Annotated(x, y) ==
    \/ \E k \in 1..Len(drawn_items) : Covers(drawn_items[k], x, y)
    \/ IsSome(drawing_item) /\ Covers(Unwrap(drawing_item), x, y)

\* Pixel (x, y) is outside the inclusive box [p0.x, p1.x] x [p0.y, p1.y].
OutsideBox(x, y) == x < p0[1] \/ x > p1[1] \/ y < p0[2] \/ y > p1[2]

\* Pixel (x, y) is on the one-pixel border of the Region.
OnRegionBorder(x, y) == OnRectBorder(p0, p1, <<x, y>>)

Redrawn == ev = "RedrawRequested" /\ Running

\* C10: after a redraw, for every frame pixel that no annotation covers:
\* outside the inclusive box [p0, p1] its alpha is 100 and its RGB is the
\* capture's (the border colour's where the Region border runs outside the
\* box); inside the box it is the border colour on the Region border and
\* the capture's four bytes elsewhere.  A pixel an annotation covers has
\* the border colour, alpha 255, wherever it lies.
C10_PixelAfterRedraw(x, y) ==
    LET out(c) == ByteAt(modified_screenshot, x, y, c, width)
        orig(c) == ByteAt(original_screenshot, x, y, c, width)
        base(c) == IF OnRegionBorder(x, y) THEN BORDER_COLOR[c + 1]
                   ELSE orig(c)
    IN IF Annotated(x, y)
       THEN \A c \in 0..3 : out(c) = BORDER_COLOR[c + 1]
       ELSE IF OutsideBox(x, y)
       THEN /\ out(3) = DIM_ALPHA
            /\ \A c \in 0..2 : out(c) = base(c)
       ELSE \A c \in 0..3 : out(c) = base(c)

C10_DimOutsideExceptOverlays ==
    Redrawn =>
        \A x \in 0..(width - 1), y \in 0..(height - 1) :
            C10_PixelAfterRedraw(x, y)

\* C10 as the specification words it: every pixel outside the box has
\* alpha 100 and the capture's RGB, every pixel inside it the capture's
\* alpha, whatever the store holds.
C10_DimOutsideKeepInside ==
    Redrawn =>
        \A x \in 0..(width - 1), y \in 0..(height - 1) :
            LET out(c) == ByteAt(modified_screenshot, x, y, c, width)
                orig(c) == ByteAt(original_screenshot, x, y, c, width)
            IN IF OutsideBox(x, y)
               THEN /\ out(3) = DIM_ALPHA
                    /\ \A c \in 0..2 : out(c) = orig(c)
               ELSE out(3) = orig(3)

C10_Witness ==
    /\ Redrawn
    /\ p0 = <<0, 6>>
    /\ Len(drawn_items) = 2
    /\ Annotated(3, 0)
    /\ ByteAt(modified_screenshot, 3, 0, 3, width) = 255
    /\ ~Annotated(3, 3)
    /\ OutsideBox(3, 3)
    /\ ByteAt(modified_screenshot, 3, 3, 3, width) = DIM_ALPHA

\* C17: the helper performs a clipboard write if and only if its standard
\* input deserializes to an Image record, and for every other input it
\* exits silently, without an error or abort.
C17_HelperWritesIffRecord ==
    helper.status \notin {"none", "started"} =>
        /\ helper.status = "exited"
        /\ IsSome(helper.wrote) <=> Significant(stdin) = <<"record">>

\* The five resize flags.
resize_flags ==
    <<is_resizing, top_border_resized, right_border_resized,
      bottom_border_resized, left_border_resized>>

\* C11: a redraw's working buffer is the compositing of the original
\* frame, the Region, the store and the drawing item as they are, whatever
\* buffer the earlier redraw left; a redraw with no event since the last
\* one leaves the buffer byte for byte as it was; and a redraw changes
\* neither the original frame, the Region, the store, the drawing item,
\* the draw mode nor the resize flags.
C11_RedrawStep ==
    /\ modified_screenshot' = Composite
    /\ ~stale => modified_screenshot' = modified_screenshot
    /\ UNCHANGED <<original_screenshot, p0, p1, drawn_items, drawing_item,
                   draw_mode, resize_flags>>

C11_CompositingIsPure ==
    [][(ev' = "RedrawRequested" /\ control_flow' = "Poll") =>
          C11_RedrawStep]_vars

C11_Witness ==
    /\ ev = "RedrawRequested"
    /\ ~stale
    /\ nev = MaxEvents - SessionBudget
    /\ Len(drawn_items) = 2
    /\ modified_screenshot = Composite

\* C12: once an Escape key press or a close request was delivered, no
\* later event writes to the clipboard.
C12_NoExportAfterCancel ==
    [][(input.escape \/ input.close) => clipboard' = clipboard]_vars

\* C13: handling a window resize resets the session state: the Region is
\* (0, 0)-(new width, new height), the store is empty, there is no drawing
\* item, the draw mode is None, the resize flags are cleared and the
\* cursor position is forgotten, whatever the state was.
C13_ResizeStep ==
    /\ p0' = <<0, 0>>
    /\ p1' = Unwrap(input.window_resized)
    /\ drawn_items' = <<>>
    /\ drawing_item' = <<>>
    /\ draw_mode' = None
    /\ resize_flags' = <<FALSE, FALSE, FALSE, FALSE, FALSE>>
    /\ mouse_coordinates' = <<>>

C13_ResizeResetsSession ==
    [][(/\ ev' = "MainEventsCleared"
        /\ IsSome(input.window_resized)
        /\ ~input.escape
        /\ ~input.close) => C13_ResizeStep]_vars

C13_Witness ==
    /\ ev = "MainEventsCleared"
    /\ phase = "redraw"
    /\ p0 = <<0, 0>>
    /\ p1 = <<ScreenW, ScreenH - 1>>
    /\ drawn_items = <<>>
    /\ mouse_coordinates = <<>>

\* C14: a shape key (L, R, P) sets the draw mode and changes nothing else
\* of the session: the Region, the resize flags, the store and the drawing
\* item are as they were, also during a resize or a drawing gesture.
C14_ShapeKeySetsModeOnly ==
    [][ev' \in {"L", "R", "P"} =>
          /\ draw_mode' = ShapeOf(ev')
          /\ UNCHANGED <<p0, p1, resize_flags, drawn_items,
                         drawing_item>>]_vars

C14_Witness ==
    /\ ev = "L"
    /\ draw_mode = "Line"
    /\ IsSome(drawing_item)
    /\ Unwrap(drawing_item).tag = "RectFilled"

\* The session state the frame conditions speak of.
session_core == <<p0, p1, resize_flags, drawn_items, drawing_item, draw_mode>>

\* The step that handles a window resize.
ResizeHandled ==
    /\ ev' = "MainEventsCleared"
    /\ IsSome(input.window_resized)
    /\ ~input.escape
    /\ ~input.close

\* C15: on every step that does not handle a window resize the store is
\* append-only: it never shrinks, grows by at most one element and only on
\* a release, no element but the last changes, and the last changes only
\* on the fill-toggle key.
C15_StoreStep ==
    LET n == Len(drawn_items)
    IN /\ Len(drawn_items') \in {n, n + 1}
       /\ \A k \in 1..(n - 1) : drawn_items'[k] = drawn_items[k]
       /\ (n > 0 /\ drawn_items'[n] # drawn_items[n]) =>
             /\ ev' = "T"
             /\ Len(drawn_items') = n
       /\ Len(drawn_items') = n + 1 => ev' = "Released"

C15_StoreAppendOnly ==
    [][~ResizeHandled => C15_StoreStep]_vars

C15_Witness ==
    /\ ev = "Released"
    /\ Len(drawn_items) = 3
    /\ drawn_items[1] = DrawnItem("Line", <<0, 0>>, <<6, 0>>)
    /\ drawn_items[2] = DrawnItem("RectBorder", <<0, 0>>, <<0, 6>>)

\* C16: a pointer move in an idle state, a press off every edge band with
\* no draw mode, and a press before any cursor position is known leave the
\* Region, the resize flags, the store, the drawing item and the draw mode
\* unchanged.
C16_NoOpCase ==
    \/ ev' = "CursorMoved" /\ Idle
    \/ /\ ev' = "Pressed"
       /\ IsSome(mouse_coordinates)
       /\ ~OnSomeBand(MousePoint)
       /\ draw_mode = None
    \/ ev' = "Pressed" /\ mouse_coordinates = <<>>

C16_UndefinedEventsAreNoOps ==
    [][C16_NoOpCase => UNCHANGED session_core]_vars

C16_Witness ==
    /\ ev = "Pressed"
    /\ mouse_coordinates = <<>>
    /\ draw_mode = "Line"
    /\ Idle
    /\ drawn_items = <<>>

\* C18: the image exported on Return or F is the compositing of the
\* Region, the store and the drawing item as they are when the key is
\* handled: the whole of it for F, its crop to the Region's interior for
\* Return.
C18_ExportIsCurrentComposite ==
    /\ ev = "F" =>
          /\ IsSome(clipboard)
          /\ Unwrap(clipboard).bytes = Composite
    /\ (ev = "Return" /\ control_flow = "Exit") =>
          LET img == Unwrap(clipboard)
          IN \A i \in 0..(img.width - 1), j \in 0..(img.height - 1),
                c \in 0..3 :
                  ByteAt(img.bytes, i, j, c, img.width) =
                      ByteAt(Composite, p0[1] + 1 + i, p0[2] + 1 + j, c,
                             width)

\* The cursor position lies in the frame.
PointerInFrame ==
    /\ IsSome(mouse_coordinates)
    /\ \A k \in 1..2 : Unwrap(mouse_coordinates)[k] >= 0
    /\ MousePoint[1] < width
    /\ MousePoint[2] < height

\* The move to the pixel (x, y) takes the resized edge onto or past the
\* opposite one.
Crosses(x, y) ==
    CASE ResizedEdge = "top" -> y >= p1[2]
      [] ResizedEdge = "right" -> x <= p0[1]
      [] ResizedEdge = "bottom" -> y <= p0[2]
      [] ResizedEdge = "left" -> x >= p1[1]

\* C19: no handler clamps the corners: a move of the one resized edge to a
\* position in the frame that is on or past the opposite edge is taken as
\* it is and leaves p0.x >= p1.x or p0.y >= p1.y.  From the initial Region
\* such a state is reached by a press, a move and a release on the bottom
\* edge.
C19_MoveIsNotClamped ==
    [][(/\ ev' = "CursorMoved"
        /\ is_resizing
        /\ FlagCount = 1
        /\ PointerInFrame'
        /\ Crosses(MousePoint'[1], MousePoint'[2]))
       => (p0'[1] >= p1'[1] \/ p0'[2] >= p1'[2])]_vars

C19_Witness ==
    /\ ev = "Released"
    /\ nev = 4
    /\ Idle
    /\ PointerInFrame
    /\ p0 = <<0, 0>>
    /\ p1 = <<ScreenW, 0>>
    /\ p0[2] >= p1[2]

\* C20: the general flag is set exactly when an edge flag is; a press on
\* an edge band sets both, a release clears all five, and besides the
\* press and the release only the handling of a window resize (which
\* clears them) changes them.
C20_FlagStepBase ==
    /\ is_resizing' <=> FlagCount' > 0
    /\ (ev' = "Pressed" /\ IsSome(mouse_coordinates)
          /\ OnSomeBand(MousePoint)) => (is_resizing' /\ FlagCount' > 0)
    /\ ev' = "Released" =>
          resize_flags' = <<FALSE, FALSE, FALSE, FALSE, FALSE>>

C20_FlagsConsistent ==
    [][/\ C20_FlagStepBase
       /\ resize_flags' # resize_flags =>
             (ev' \in {"Pressed", "Released"} \/ ResizeHandled)]_vars

\* C20 as the specification words it: no event but a press or a release
\* touches the flags.
C20_FlagsOnlyPressRelease ==
    [][/\ C20_FlagStepBase
       /\ resize_flags' # resize_flags =>
             ev' \in {"Pressed", "Released"}]_vars

C20_Witness ==
    /\ ev = "Pressed"
    /\ is_resizing
    /\ FlagCount = 1
    /\ left_border_resized

\* C21: every release sets the draw mode to None; the release that ends a
\* resize started by a press on an edge band appends nothing to the store;
\* and a press with no draw mode selected starts no drawing item and
\* appends nothing.
C21_ReleaseStep ==
    /\ draw_mode' = None
    /\ is_resizing => drawn_items' = drawn_items

C21_ReleaseLosesMode ==
    [][/\ ev' = "Released" => C21_ReleaseStep
       /\ (ev' = "Pressed" /\ draw_mode = None) =>
             UNCHANGED <<drawing_item, drawn_items>>]_vars

=============================================================================
